---- MODULE Spec2Model ----
(***************************************************************************)
(* Model of the two processes of the repository:                           *)
(*   - the Fault Analysis Orchestrator                                     *)
(*       src/simple_agent/network_fault_analysis_agent.py                  *)
(*   - the Saved-Search Directory Service                                  *)
(*       src/splunk/splunk_saved_search_mcp_server.py                      *)
(* JSON values are records with a fixed set of fields; a key that a        *)
(* mapping does not hold is the token "absent".                            *)
(***************************************************************************)
EXTENDS Integers, Sequences, FiniteSets, Bags, TLC

VARIABLES
    slots,       \* Orchestrator: self.slots
    inflight,    \* Orchestrator: the tool invocations suspended at an await (a bag)
    out,         \* Orchestrator: what the last completed tool invocation returned
    lastReport,  \* history: the last generate_diagnosis_report output since a slot write
    mixed,       \* history: another run wrote delayed_nodes between the two writes
                 \*          of the analysis run that wrote network_topology last
    repeated,    \* history: the last generate_diagnosis_report call was not the first
                 \*          one since a slot write
    diagIn,      \* the pair of payloads handed to _diagnose_fault
    diagOut,     \* what _diagnose_fault returned for diagIn
    upstream,    \* Directory Service: what the mocked transport answers to session.get
    httpCalls,   \* Directory Service: number of session.get calls made by the tools
    dirArgs,     \* Directory Service: the tool called last and its arguments
    dirOut       \* Directory Service: what the last tool call returned

orchVars == <<slots, inflight, out, lastReport, mixed, repeated>>
diagVars == <<diagIn, diagOut>>
dirVars  == <<upstream, httpCalls, dirArgs, dirOut>>
vars     == <<slots, inflight, out, lastReport, mixed, repeated, diagIn, diagOut,
              upstream, httpCalls, dirArgs, dirOut>>

(***************************************************************************)
(* Bounds                                                                  *)
(***************************************************************************)
\* longest "results" list of a payload handed to _diagnose_fault directly
MaxResults == 2
\* longest "results" list of a backend body in the Orchestrator state machine
MaxBodyResults == 1
\* tool invocations of the Orchestrator in flight at the same time
MaxRuns == 2
\* longest "entry" list the search platform returns
MaxEntries == 2
\* upstream requests counted by the mocked transport
MaxHttpCalls == 3

HTTP_OK == 200

BoundedSeq(S, n) == UNION {[1..k -> S] : k \in 0..n}

SeqToSet(s) == {s[i] : i \in 1..Len(s)}

(***************************************************************************)
(* JSON payloads of the Orchestrator's backend                             *)
(***************************************************************************)
\* elements of a "results" list: two mappings and one element that is no mapping
NodeCritical == [shape |-> "mapping", device_name |-> "R1", status |-> "critical"]
NodePlain    == [shape |-> "mapping", device_name |-> "absent", status |-> "ok"]
NodeScalar   == [shape |-> "scalar", device_name |-> "absent", status |-> "absent"]
Nodes == {NodeCritical, NodePlain, NodeScalar}

Json(shape, has_results, results, error, search_name) ==
    [shape |-> shape, has_results |-> has_results, results |-> results,
     error |-> error, search_name |-> search_name]

\* Optional[Any] = None
None == Json("none", FALSE, <<>>, "absent", "absent")

\* a 200 body that is no mapping (a JSON list, string, number or null)
NotMapping == Json("other", FALSE, <<>>, "absent", "absent")

\* the elements of the bodies the backend of the Orchestrator state machine returns
BackendNodes == {NodeCritical}

\* the 200 bodies: {"results": [...]}, {} and a body that is no mapping
Bodies(nodes, n) ==
    {Json("mapping", TRUE, r, "absent", "absent") : r \in BoundedSeq(nodes, n)}
        \cup {Json("mapping", FALSE, <<>>, "absent", "absent"), NotMapping}

SlotNames == <<"delayed_nodes", "network_topology">>

\* what requests.post does: a response with a status code, or an exception
Outcomes(nodes, n) ==
    {[kind |-> "response", status_code |-> HTTP_OK, body |-> b] : b \in Bodies(nodes, n)}
        \cup {[kind |-> "response", status_code |-> 500, body |-> NotMapping],
              [kind |-> "exception", status_code |-> 0, body |-> NotMapping]}

\* _execute_saved_search
ExecuteSavedSearch(search_name, outcome) ==
    IF outcome.kind = "exception"
    THEN Json("mapping", FALSE, <<>>, "Exception during search execution", search_name)
    ELSE IF outcome.status_code = HTTP_OK
         THEN outcome.body
         ELSE Json("mapping", FALSE, <<>>,
                   "Search execution failed: " \o ToString(outcome.status_code),
                   search_name)

\* dict.get("results", [])
GetResults(obj) == IF obj.has_results THEN obj.results ELSE <<>>

\* node.get("device_name", "unknown")
DeviceName(node) ==
    IF node.device_name = "absent" THEN "unknown" ELSE node.device_name

GeneralRecommendations ==
    <<"Monitor network performance continuously",
      "Check for capacity saturation",
      "Verify routing configurations">>

NoDiagnosis ==
    [primary_issue |-> "absent", affected_nodes |-> <<>>, recommendations |-> <<>>]

\* an AttributeError or TypeError leaving the function
Raised == [raised |-> TRUE, diagnosis |-> NoDiagnosis]

\* faulty variant of DiagnoseFault: the latency issue takes priority
DiagnoseFaultSwapped(delayed_nodes, topology) ==
    IF delayed_nodes.shape # "mapping" \/ topology.shape # "mapping" THEN Raised
    ELSE IF \E n \in SeqToSet(GetResults(delayed_nodes)) \cup SeqToSet(GetResults(topology)) :
                n.shape # "mapping"
    THEN Raised
    ELSE LET dl == GetResults(delayed_nodes)
             crit == \E t \in SeqToSet(GetResults(topology)) : t.status = "critical"
         IN [raised |-> FALSE,
             diagnosis |->
               [primary_issue |-> IF dl # <<>> THEN "High network latency detected"
                                  ELSE IF crit THEN "Network connectivity issue detected"
                                  ELSE "null",
                affected_nodes |-> [i \in 1..Len(dl) |-> DeviceName(dl[i])],
                recommendations |->
                   (IF dl # <<>>
                    THEN <<"Investigate network device performance on affected nodes">>
                    ELSE <<>>)
                   \o (IF crit THEN <<"Check network device status and connectivity">>
                       ELSE <<>>)
                   \o GeneralRecommendations]]

\* _diagnose_fault
DiagnoseFault(delayed_nodes, topology) ==
    IF delayed_nodes.shape # "mapping" THEN Raised          \* delayed_nodes.get
    ELSE LET delayed_node_list == GetResults(delayed_nodes)
             d1 == [primary_issue |-> "null", affected_nodes |-> <<>>,
                    recommendations |-> <<>>]
         IN
         IF \E n \in SeqToSet(delayed_node_list) : n.shape # "mapping"
         THEN Raised                                         \* node.get
         ELSE LET d2 == IF delayed_node_list # <<>>
                        THEN [primary_issue |-> "High network latency detected",
                              affected_nodes |->
                                 [i \in 1..Len(delayed_node_list) |->
                                     DeviceName(delayed_node_list[i])],
                              recommendations |->
                                 <<"Investigate network device performance on affected nodes">>]
                        ELSE d1
              IN
              IF topology.shape # "mapping" THEN Raised      \* topology.get
              ELSE LET topology_results == GetResults(topology) IN
                   IF \E t \in SeqToSet(topology_results) : t.shape # "mapping"
                   THEN Raised                               \* t.get
                   ELSE LET critical_issues ==
                                 SelectSeq(topology_results,
                                           LAMBDA t : t.status = "critical")
                            d3 == IF critical_issues # <<>>
                                  THEN [d2 EXCEPT
                                         !.primary_issue =
                                            "Network connectivity issue detected",
                                         !.recommendations =
                                            Append(@, "Check network device status and connectivity")]
                                  ELSE d2
                        IN [raised |-> FALSE,
                            diagnosis |->
                              [d3 EXCEPT !.recommendations = @ \o GeneralRecommendations]]

(***************************************************************************)
(* Orchestrator: slots and tool outputs                                    *)
(***************************************************************************)
\* Slot (name, description and search_name never change)
Slot(name, search_name, filled, value) ==
    [name |-> name, search_name |-> search_name, filled |-> filled, value |-> value]

\* NetworkFaultAnalysisAgent.__init__
InitSlots ==
    [n \in SeqToSet(SlotNames) |->
        IF n = "delayed_nodes"
        THEN Slot("delayed_nodes", "get_delayed_nodes", FALSE, None)
        ELSE Slot("network_topology", "get_network_topology", FALSE, None)]

\* faulty variant of FillSlot: an error envelope does not fill the slot
FillSlotOnSuccess(s, name, value) ==
    [s EXCEPT ![name].value = value, ![name].filled = (value.error = "absent")]

\* faulty variant of FillSlot: writing one slot resets the other
FillSlotReset(s, name, value) ==
    [n \in DOMAIN s |->
        IF n = name THEN [s[n] EXCEPT !.value = value, !.filled = TRUE]
        ELSE [s[n] EXCEPT !.filled = FALSE]]

\* self.slots[name].value = result; self.slots[name].filled = True
FillSlot(s, name, value) ==
    [s EXCEPT ![name].value = value, ![name].filled = TRUE]

\* the fields every tool output of the Orchestrator is drawn from
BlankOut ==
    [op |-> "none", raised |-> FALSE, error |-> "absent", unfilled_slots |-> <<>>,
     message |-> "absent", slot |-> "absent", status |-> "absent", data |-> None,
     delayed_nodes |-> None, network_topology |-> None,
     report_type |-> "absent", findings_dn |-> <<>>, findings_nt |-> <<>>,
     diagnosis |-> NoDiagnosis, next_steps |-> 0,
     total_slots |-> 0, filled_slots |-> 0,
     filled_dn |-> FALSE, filled_nt |-> FALSE]

\* an error leaving the tool: no JSON string is returned
RaisedOut(op) == [BlankOut EXCEPT !.op = op, !.raised = TRUE]

\* faulty variant of UnfilledSlots: only the first slot is looked at
UnfilledSlotsFirstOnly(s) ==
    SelectSeq(<<"delayed_nodes">>, LAMBDA n : ~s[n].filled)

\* [name for name, slot in self.slots.items() if not slot.filled]
UnfilledSlots(s) == SelectSeq(SlotNames, LAMBDA n : ~s[n].filled)

\* faulty variant of GenerateReport: the report depends on the previous report
GenerateReportCounting(s) ==
    LET d == DiagnoseFault(s["delayed_nodes"].value, s["network_topology"].value) IN
    IF d.raised THEN RaisedOut("generate_diagnosis_report")
    ELSE [BlankOut EXCEPT !.op = "generate_diagnosis_report",
            !.report_type = "Network Fault Analysis", !.status = "completed",
            !.findings_dn = GetResults(s["delayed_nodes"].value),
            !.findings_nt = GetResults(s["network_topology"].value),
            !.diagnosis = d.diagnosis,
            !.next_steps = IF lastReport.op = "none" THEN 4 ELSE 5]

\* faulty variant of GenerateReport: the findings are taken from the wrong slots
GenerateReportSwapped(s) ==
    LET d == DiagnoseFault(s["delayed_nodes"].value, s["network_topology"].value) IN
    IF d.raised THEN RaisedOut("generate_diagnosis_report")
    ELSE [BlankOut EXCEPT !.op = "generate_diagnosis_report",
            !.report_type = "Network Fault Analysis", !.status = "completed",
            !.findings_dn = GetResults(s["network_topology"].value),
            !.findings_nt = GetResults(s["delayed_nodes"].value),
            !.diagnosis = d.diagnosis, !.next_steps = 4]

\* _generate_diagnosis_report, then json.dumps
GenerateReport(s) ==
    LET delayed_nodes_data == s["delayed_nodes"].value
        topology_data == s["network_topology"].value
        d == DiagnoseFault(delayed_nodes_data, topology_data)
    IN IF d.raised THEN RaisedOut("generate_diagnosis_report")
       ELSE [BlankOut EXCEPT !.op = "generate_diagnosis_report",
               !.report_type = "Network Fault Analysis", !.status = "completed",
               !.findings_dn = GetResults(delayed_nodes_data),
               !.findings_nt = GetResults(topology_data),
               !.diagnosis = d.diagnosis, !.next_steps = 4]

\* generate_diagnosis_report
GenerateDiagnosisReportOut(s) ==
    LET unfilled_slots == UnfilledSlots(s) IN
    IF unfilled_slots # <<>>
    THEN [BlankOut EXCEPT !.op = "generate_diagnosis_report",
            !.error = "Not all slots are filled",
            !.unfilled_slots = unfilled_slots,
            !.message = "Please collect data first using get_delayed_nodes and get_network_topology"]
    ELSE GenerateReport(s)

\* get_slot_status
GetSlotStatusOut(s) ==
    [BlankOut EXCEPT !.op = "get_slot_status",
       !.total_slots = Len(SlotNames),
       !.filled_slots = Cardinality({n \in DOMAIN s : s[n].filled}),
       !.filled_dn = s["delayed_nodes"].filled,
       !.filled_nt = s["network_topology"].filled]

\* the return of get_delayed_nodes / get_network_topology
FetchOut(op, slot, result) ==
    [BlankOut EXCEPT !.op = op, !.slot = slot, !.status = "filled", !.data = result]

\* the return of _analyze_network_fault, then json.dumps
AnalyzeOut(delayed_nodes_data, topology_data) ==
    LET d == DiagnoseFault(delayed_nodes_data, topology_data) IN
    IF d.raised THEN RaisedOut("analyze_network_fault")
    ELSE [BlankOut EXCEPT !.op = "analyze_network_fault",
            !.status = "analysis_complete",
            !.delayed_nodes = delayed_nodes_data,
            !.network_topology = topology_data,
            !.diagnosis = d.diagnosis]

(***************************************************************************)
(* Orchestrator: the tools as steps between awaits                         *)
(***************************************************************************)
Run(tool, pc, delayed_nodes_data) ==
    [tool |-> tool, pc |-> pc, delayed_nodes_data |-> delayed_nodes_data]

Suspend(run) == inflight (+) SetToBag({run})
Resume(run) == inflight (-) SetToBag({run})

\* a tool with a fetch is invoked and runs to its first await
Invoke(tool, pc) ==
    /\ BagCardinality(inflight) < MaxRuns
    /\ inflight' = Suspend(Run(tool, pc, None))
    /\ UNCHANGED <<slots, out, lastReport, mixed, repeated>>

InvokeAnalyzeNetworkFault == Invoke("analyze_network_fault", "await_delayed_nodes")
InvokeGetDelayedNodes == Invoke("get_delayed_nodes", "await_delayed_nodes")
InvokeGetNetworkTopology == Invoke("get_network_topology", "await_network_topology")

\* get_delayed_nodes, from the result of its fetch to its return
GetDelayedNodesReturn ==
    \E outcome \in Outcomes(BackendNodes, MaxBodyResults) :
      LET run == Run("get_delayed_nodes", "await_delayed_nodes", None)
          result == ExecuteSavedSearch("get_delayed_nodes", outcome)
      IN /\ BagIn(run, inflight)
         /\ slots' = FillSlot(slots, "delayed_nodes", result)
         /\ out' = FetchOut("get_delayed_nodes", "delayed_nodes", result)
         /\ inflight' = Resume(run)
         /\ lastReport' = BlankOut
         /\ mixed' = FALSE
         /\ repeated' = FALSE

\* get_network_topology, from the result of its fetch to its return
GetNetworkTopologyReturn ==
    \E outcome \in Outcomes(BackendNodes, MaxBodyResults) :
      LET run == Run("get_network_topology", "await_network_topology", None)
          result == ExecuteSavedSearch("get_network_topology", outcome)
      IN /\ BagIn(run, inflight)
         /\ slots' = FillSlot(slots, "network_topology", result)
         /\ out' = FetchOut("get_network_topology", "network_topology", result)
         /\ inflight' = Resume(run)
         /\ lastReport' = BlankOut
         /\ mixed' = FALSE
         /\ repeated' = FALSE

\* _analyze_network_fault, from the result of its first fetch to its second await
AnalyzeDelayedNodesFetched ==
    \E outcome \in Outcomes(BackendNodes, MaxBodyResults) :
      LET run == Run("analyze_network_fault", "await_delayed_nodes", None)
          delayed_nodes_data == ExecuteSavedSearch("get_delayed_nodes", outcome)
      IN /\ BagIn(run, inflight)
         /\ slots' = FillSlot(slots, "delayed_nodes", delayed_nodes_data)
         /\ inflight' = Resume(run) (+)
                SetToBag({Run("analyze_network_fault", "await_network_topology",
                              delayed_nodes_data)})
         /\ lastReport' = BlankOut
         /\ mixed' = FALSE
         /\ repeated' = FALSE
         /\ UNCHANGED out

\* _analyze_network_fault, from the result of its second fetch to the return of
\* analyze_network_fault
AnalyzeTopologyFetched ==
    \E run \in BagToSet(inflight), outcome \in Outcomes(BackendNodes, MaxBodyResults) :
      LET topology_data == ExecuteSavedSearch("get_network_topology", outcome) IN
         /\ run.tool = "analyze_network_fault"
         /\ run.pc = "await_network_topology"
         /\ slots' = FillSlot(slots, "network_topology", topology_data)
         /\ out' = AnalyzeOut(run.delayed_nodes_data, topology_data)
         /\ inflight' = Resume(run)
         /\ lastReport' = BlankOut
         /\ mixed' = (slots["delayed_nodes"].value # run.delayed_nodes_data)
         /\ repeated' = FALSE

\* generate_diagnosis_report (no await: one step)
GenerateDiagnosisReport ==
    /\ out' = GenerateDiagnosisReportOut(slots)
    /\ lastReport' = out'
    /\ repeated' = (lastReport.op # "none")
    /\ UNCHANGED <<slots, inflight, mixed>>

\* get_slot_status (no await: one step)
GetSlotStatus ==
    /\ out' = GetSlotStatusOut(slots)
    /\ UNCHANGED <<slots, inflight, lastReport, mixed, repeated>>

(***************************************************************************)
(* _diagnose_fault applied to a pair of fetched payloads                   *)
(***************************************************************************)
NotDiagnosed == [raised |-> FALSE, diagnosis |-> NoDiagnosis]

\* the two fetches of _analyze_network_fault, then its call of _diagnose_fault
Diagnose ==
    /\ diagOut = NotDiagnosed
    /\ diagOut' = DiagnoseFault(diagIn.delayed_nodes, diagIn.topology)
    /\ UNCHANGED diagIn

(***************************************************************************)
(* Directory Service                                                       *)
(***************************************************************************)
\* strings that are searched or compared are sequences of characters
Lower(str) ==
    [i \in 1..Len(str) |->
        CASE str[i] = "N" -> "n"
          [] str[i] = "E" -> "e"
          [] OTHER -> str[i]]

\* needle in haystack (Python's substring test)
Contains(haystack, needle) ==
    \E i \in 0..(Len(haystack) - Len(needle)) :
        \A j \in 1..Len(needle) : haystack[i + j] = needle[j]

EntryNames == {<<"N", "e", "t">>, <<"d", "b">>}
Patterns == {<<>>, <<"n", "E">>, <<"b">>, <<"x">>}
DetailNames == {<<>>, <<"N", "e", "t">>}
\* the app argument: None ("absent") or given
Apps == {"absent", "itsi"}
\* os.getenv("SPLUNK_APP", "search")
DefaultApp == "search"

\* the JSON values of content.disabled: true, false, 1, 0, "1", or no such key
DisabledValues == {"true", "false", "num1", "num0", "str1", "absent"}

Entry(shape, name, disabled, is_scheduled) ==
    [shape |-> shape, name |-> name, disabled |-> disabled,
     description |-> "desc", search |-> "index=net", owner |-> "admin",
     updated |-> "2024", is_scheduled |-> is_scheduled, cron_schedule |-> "0 * * * *"]

\* the elements of the platform's "entry" list; the last one is no mapping
Entries ==
    {Entry("mapping", n, d, "1") : n \in EntryNames, d \in DisabledValues}
        \cup {Entry("mapping", <<"d", "b">>, "false", "0"),
              Entry("scalar", <<>>, "absent", "absent")}

\* what session.get does: a response (status code; a body that is a mapping with
\* or without "entry", or no mapping), or an exception
DirOutcomes ==
    {[kind |-> "response", status_code |-> HTTP_OK, shape |-> "mapping",
      has_entry |-> TRUE, entry |-> e] : e \in BoundedSeq(Entries, MaxEntries)}
        \cup {[kind |-> "response", status_code |-> HTTP_OK, shape |-> "mapping",
               has_entry |-> FALSE, entry |-> <<>>],
              [kind |-> "response", status_code |-> HTTP_OK, shape |-> "other",
               has_entry |-> FALSE, entry |-> <<>>],
              [kind |-> "response", status_code |-> 500, shape |-> "other",
               has_entry |-> FALSE, entry |-> <<>>],
              [kind |-> "exception", status_code |-> 0, shape |-> "other",
               has_entry |-> FALSE, entry |-> <<>>]}

NoUpstream ==
    [kind |-> "none", status_code |-> 0, shape |-> "other",
     has_entry |-> FALSE, entry |-> <<>>]

\* the fields of the entries of "saved_searches"
Listed(name, description, owner, spl, disabled) ==
    [name |-> name, description |-> description, owner |-> owner,
     spl |-> spl, disabled |-> disabled]

NoSearch ==
    [name |-> <<>>, description |-> "absent", spl |-> "absent", owner |-> "absent",
     updated |-> "absent", is_scheduled |-> FALSE, cron_schedule |-> "absent"]

DirBlank ==
    [op |-> "none", status |-> "absent", error |-> "absent", app |-> "absent",
     pattern |-> <<>>, count |-> 0, saved_searches |-> <<>>, search |-> NoSearch]

DirError(op, error) == [DirBlank EXCEPT !.op = op, !.status = "error", !.error = error]

\* response.json().get("entry", [])
GetEntry(up) == IF up.has_entry THEN up.entry ELSE <<>>

\* faulty variant of Missing: the argument is not validated
MissingNever(arg) == FALSE

\* not pattern / not search_name
Missing(arg) == arg = <<>>

\* faulty variant of IsDisabled: nothing is skipped
IsDisabledNever(disabled) == FALSE

\* content.get("disabled", False) == True   (in Python 1 == True)
IsDisabled(disabled) == disabled \in {"true", "num1"}

\* content.get("disabled", False)
DisabledOrFalse(disabled) == IF disabled = "absent" THEN "false" ELSE disabled

\* if app is None: app = server.app_name
AppOrDefault(app) == IF app = "absent" THEN DefaultApp ELSE app

\* the loop of get_saved_searches_list over all_searches
ListedSearches(all_searches) ==
    LET kept == SelectSeq(all_searches, LAMBDA entry : ~IsDisabled(entry.disabled))
    IN [i \in 1..Len(kept) |->
           Listed(kept[i].name, kept[i].description, kept[i].owner, "absent", "absent")]

\* the loop of get_saved_searches_by_pattern over all_searches
MatchingSearches(all_searches, pattern) ==
    LET kept == SelectSeq(all_searches,
                          LAMBDA entry : /\ ~IsDisabled(entry.disabled)
                                         /\ Contains(Lower(entry.name), Lower(pattern)))
    IN [i \in 1..Len(kept) |->
           Listed(kept[i].name, kept[i].description, "absent", kept[i].search,
                  DisabledOrFalse(kept[i].disabled))]

\* the body of the try block shared by the two list tools: the except clause,
\* the status check, and the AttributeError of a body or an entry that is no mapping
Fetched(up) ==
    IF up.kind = "exception" THEN "exception"
    ELSE IF up.status_code # HTTP_OK THEN "status"
    ELSE IF up.shape # "mapping" THEN "exception"
    ELSE IF \E entry \in SeqToSet(GetEntry(up)) : entry.shape # "mapping" THEN "exception"
    ELSE "ok"

\* get_saved_searches_list: [out, http] = the output and the session.get calls made
GetSavedSearchesList(app, up) ==
    LET a == AppOrDefault(app)
        op == "get_saved_searches_list"
    IN [http |-> 1,
        out |-> CASE Fetched(up) = "exception" -> DirError(op, "str(e)")
                  [] Fetched(up) = "status" ->
                        DirError(op, "Failed to retrieve Saved Searches: "
                                        \o ToString(up.status_code))
                  [] OTHER ->
                        LET searches == ListedSearches(GetEntry(up)) IN
                        [DirBlank EXCEPT !.op = op, !.status = "success", !.app = a,
                                         !.count = Len(searches),
                                         !.saved_searches = searches]]

\* get_saved_searches_by_pattern
GetSavedSearchesByPattern(pattern, app, up) ==
    LET a == AppOrDefault(app)
        op == "get_saved_searches_by_pattern"
    IN IF Missing(pattern)
       THEN [http |-> 0, out |-> DirError(op, "pattern is required")]
       ELSE [http |-> 1,
             out |-> CASE Fetched(up) = "exception" -> DirError(op, "str(e)")
                       [] Fetched(up) = "status" ->
                             DirError(op, "Failed to retrieve Saved Searches: "
                                             \o ToString(up.status_code))
                       [] OTHER ->
                             LET matching_searches ==
                                    MatchingSearches(GetEntry(up), pattern)
                             IN [DirBlank EXCEPT
                                   !.op = op, !.status = "success", !.app = a,
                                   !.pattern = pattern,
                                   !.count = Len(matching_searches),
                                   !.saved_searches = matching_searches]]

\* get_saved_search_details
GetSavedSearchDetails(search_name, app, up) ==
    LET a == AppOrDefault(app)
        op == "get_saved_search_details"
    IN IF Missing(search_name)
       THEN [http |-> 0, out |-> DirError(op, "search_name is required")]
       ELSE [http |-> 1,
             out |->
               IF up.kind = "exception" THEN DirError(op, "str(e)")
               ELSE IF up.status_code = HTTP_OK /\ up.shape # "mapping"
               THEN DirError(op, "str(e)")                    \* data.get
               ELSE IF up.status_code = HTTP_OK /\ GetEntry(up) # <<>>
               THEN LET entry == up.entry[1] IN
                    IF entry.shape # "mapping" THEN DirError(op, "str(e)")  \* entry.get
                    ELSE [DirBlank EXCEPT
                            !.op = op, !.status = "success", !.app = a,
                            !.search =
                               [name |-> entry.name,
                                description |-> entry.description,
                                spl |-> entry.search,
                                owner |-> entry.owner,
                                updated |-> entry.updated,
                                is_scheduled |-> (entry.is_scheduled = "1"),
                                cron_schedule |-> entry.cron_schedule]]
               ELSE DirError(op, "Saved Search not found")]

\* one tool call of the Directory Service against the mocked transport
DirCall(op, arg, app, r) ==
    /\ httpCalls + r.http <= MaxHttpCalls
    /\ httpCalls' = httpCalls + r.http
    /\ dirArgs' = [op |-> op, arg |-> arg, app |-> app]
    /\ dirOut' = r.out
    /\ UNCHANGED upstream

CallGetSavedSearchesList ==
    \E app \in Apps :
        DirCall("get_saved_searches_list", <<>>, app,
                GetSavedSearchesList(app, upstream))

CallGetSavedSearchDetails ==
    \E search_name \in DetailNames, app \in Apps :
        DirCall("get_saved_search_details", search_name, app,
                GetSavedSearchDetails(search_name, app, upstream))

CallGetSavedSearchesByPattern ==
    \E pattern \in Patterns, app \in Apps :
        DirCall("get_saved_searches_by_pattern", pattern, app,
                GetSavedSearchesByPattern(pattern, app, upstream))

(***************************************************************************)
(* Specifications                                                          *)
(***************************************************************************)
OrchStart ==
    /\ slots = InitSlots
    /\ inflight = EmptyBag
    /\ out = BlankOut
    /\ lastReport = BlankOut
    /\ mixed = FALSE
    /\ repeated = FALSE

DiagIdle ==
    /\ diagIn = [delayed_nodes |-> None, topology |-> None]
    /\ diagOut = NotDiagnosed

NoArgs == [op |-> "none", arg |-> <<>>, app |-> "absent"]

DirStart ==
    /\ upstream = NoUpstream
    /\ httpCalls = 0
    /\ dirArgs = NoArgs
    /\ dirOut = DirBlank

\* the Orchestrator after NetworkFaultAnalysisAgent.__init__
Init == OrchStart /\ DiagIdle /\ DirStart

Next ==
    \/ InvokeAnalyzeNetworkFault /\ UNCHANGED <<diagVars, dirVars>>
    \/ InvokeGetDelayedNodes /\ UNCHANGED <<diagVars, dirVars>>
    \/ InvokeGetNetworkTopology /\ UNCHANGED <<diagVars, dirVars>>
    \/ GetDelayedNodesReturn /\ UNCHANGED <<diagVars, dirVars>>
    \/ GetNetworkTopologyReturn /\ UNCHANGED <<diagVars, dirVars>>
    \/ AnalyzeDelayedNodesFetched /\ UNCHANGED <<diagVars, dirVars>>
    \/ AnalyzeTopologyFetched /\ UNCHANGED <<diagVars, dirVars>>
    \/ GenerateDiagnosisReport /\ UNCHANGED <<diagVars, dirVars>>
    \/ GetSlotStatus /\ UNCHANGED <<diagVars, dirVars>>

Spec == Init /\ [][Next]_vars

\* every pair of payloads the two fetches can return
DiagInit ==
    /\ OrchStart /\ DirStart
    /\ \E od \in Outcomes(Nodes, MaxResults), ot \in Outcomes(Nodes, MaxResults) :
          diagIn = [delayed_nodes |-> ExecuteSavedSearch("get_delayed_nodes", od),
                    topology |-> ExecuteSavedSearch("get_network_topology", ot)]
    /\ diagOut = NotDiagnosed

DiagNext == Diagnose /\ UNCHANGED <<orchVars, dirVars>>

SpecDiagnosis == DiagInit /\ [][DiagNext]_vars

\* the Directory Service after SplunkSavedSearchServer.__init__, in front of a
\* transport that answers every session.get with one of DirOutcomes
DirInit ==
    /\ OrchStart /\ DiagIdle
    /\ upstream \in DirOutcomes
    /\ httpCalls = 0
    /\ dirArgs = NoArgs
    /\ dirOut = DirBlank

DirNext ==
    \/ CallGetSavedSearchesList /\ UNCHANGED <<orchVars, diagVars>>
    \/ CallGetSavedSearchDetails /\ UNCHANGED <<orchVars, diagVars>>
    \/ CallGetSavedSearchesByPattern /\ UNCHANGED <<orchVars, diagVars>>

SpecDirectory == DirInit /\ [][DirNext]_vars

(***************************************************************************)
(* Properties                                                              *)
(***************************************************************************)
BothFilled == slots["delayed_nodes"].filled /\ slots["network_topology"].filled

\* the names of the slots whose filled flag is false, delayed_nodes first
NamesNotFilled ==
    (IF slots["delayed_nodes"].filled THEN <<>> ELSE <<"delayed_nodes">>)
        \o (IF slots["network_topology"].filled THEN <<>> ELSE <<"network_topology">>)

\* a step in which get_delayed_nodes or get_network_topology returns
IsFetchReturn ==
    /\ BagCardinality(inflight') < BagCardinality(inflight)
    /\ out'.op \in {"get_delayed_nodes", "get_network_topology"}

\* a step in which generate_diagnosis_report is called and returns
IsGenerate ==
    /\ inflight' = inflight
    /\ out'.op = "generate_diagnosis_report"
    /\ lastReport' = out'

\* the "results" of a payload, the empty list when it has none
ResultsOf(payload) == IF payload.has_results THEN payload.results ELSE <<>>

\* C1: generate_diagnosis_report returns a report (report_type "Network Fault
\* Analysis") only if both slots are filled at the time of the call; in every
\* other state it returns the error "Not all slots are filled" with exactly the
\* names of the slots that are not filled, delayed_nodes before network_topology.
\* (lastReport is the output of the last call, kept while no slot is written.)
C1_ReportOnlyWhenBothFilled ==
    lastReport.op = "generate_diagnosis_report" =>
        /\ lastReport.report_type = "Network Fault Analysis" => BothFilled
        /\ ~BothFilled =>
              /\ ~lastReport.raised
              /\ lastReport.error = "Not all slots are filled"
              /\ lastReport.unfilled_slots = NamesNotFilled
              /\ lastReport.report_type = "absent"

\* C1 witness: a report request rejected after one fetch, naming only network_topology
C1_Witness ==
    /\ lastReport.error = "Not all slots are filled"
    /\ lastReport.unfilled_slots = <<"network_topology">>
    /\ slots["delayed_nodes"].filled

\* C2: every tool operation of the Orchestrator returns a JSON string that parses
\* to a mapping, and no error leaves the tool, whatever the backend returned.
C2_EveryToolReturnsJson == ~out.raised

\* C3: when get_delayed_nodes or get_network_topology returns, its own slot has
\* filled = true and value equal to the result it returns as "data", be that a 200
\* body, the non-200 envelope or the exception envelope; and a report requested
\* when both slots hold error envelopes is not rejected: it has status "completed".
C3_FetchAlwaysFills ==
    [][ /\ IsFetchReturn =>
             /\ out'.slot \in {"delayed_nodes", "network_topology"}
             /\ (out'.op = "get_delayed_nodes") = (out'.slot = "delayed_nodes")
             /\ slots'[out'.slot].filled
             /\ slots'[out'.slot].value = out'.data
             /\ out'.data # None
             /\ out'.status = "filled"
        /\ ( /\ IsGenerate
             /\ slots["delayed_nodes"].value.error # "absent"
             /\ slots["network_topology"].value.error # "absent" ) =>
             /\ ~out'.raised
             /\ out'.error = "absent"
             /\ out'.report_type = "Network Fault Analysis"
             /\ out'.status = "completed"
      ]_vars

\* C3 witness: both fetches failed, one by status and one by exception, and a report
\* was generated
C3_Witness ==
    /\ slots["delayed_nodes"].value.error = "Search execution failed: 500"
    /\ slots["network_topology"].value.error = "Exception during search execution"
    /\ BothFilled
    /\ lastReport.status = "completed"

\* C4: once a slot's filled flag is true it is true in every later state: no step
\* of any tool sets it back to false.
C4_FilledIsMonotonic ==
    [][ \A n \in DOMAIN slots : slots[n].filled => slots'[n].filled ]_vars

\* C4 witness: after one analysis completed, a fresh analysis has written
\* delayed_nodes again and both slots are still filled
C4_Witness ==
    /\ out.op = "analyze_network_fault"
    /\ \E run \in BagToSet(inflight) :
          /\ run.tool = "analyze_network_fault"
          /\ run.pc = "await_network_topology"
          /\ run.delayed_nodes_data # out.delayed_nodes
    /\ BothFilled

C6_ReportIsIdempotent ==
    [][ IsGenerate =>
          /\ slots' = slots
          /\ lastReport.op # "none" => out' = lastReport
      ]_vars

\* C6 witness: a second report on unchanged slots
C6_Witness ==
    /\ repeated
    /\ out = lastReport
    /\ out.report_type = "Network Fault Analysis"
    /\ out.findings_dn # <<>>

\* the device_name of a results element, "unknown" for an element without one
NameOf(node) == IF node.device_name = "absent" THEN "unknown" ELSE node.device_name

\* C7: the diagnosis of a pair of payloads has primary_issue "Network connectivity
\* issue detected" whenever topology.results holds an element with status
\* "critical", "High network latency detected" when only delayed_nodes.results is
\* non-empty, and null otherwise; affected_nodes lists the device names of
\* delayed_nodes.results; the recommendations end with the three general ones and
\* are exactly those when both result lists are empty.
C7_DiagnosisRules ==
    (diagOut # NotDiagnosed /\ ~diagOut.raised) =>
        LET dl == ResultsOf(diagIn.delayed_nodes)
            tr == ResultsOf(diagIn.topology)
            critical == \E i \in 1..Len(tr) : tr[i].status = "critical"
            d == diagOut.diagnosis
            k == Len(d.recommendations)
        IN /\ critical => d.primary_issue = "Network connectivity issue detected"
           /\ (~critical /\ dl # <<>>) => d.primary_issue = "High network latency detected"
           /\ (~critical /\ dl = <<>>) => d.primary_issue = "null"
           /\ Len(d.affected_nodes) = Len(dl)
           /\ \A i \in 1..Len(dl) : d.affected_nodes[i] = NameOf(dl[i])
           /\ k >= 3
           /\ SubSeq(d.recommendations, k - 2, k) =
                 <<"Monitor network performance continuously",
                   "Check for capacity saturation",
                   "Verify routing configurations">>
           /\ (dl = <<>> /\ tr = <<>>) => k = 3

\* C7 witness: delayed nodes and a critical topology element together
C7_Witness ==
    /\ diagOut.diagnosis.primary_issue = "Network connectivity issue detected"
    /\ diagOut.diagnosis.affected_nodes = <<"R1", "unknown">>
    /\ Len(diagOut.diagnosis.recommendations) = 5

\* C8: the saved_searches of get_saved_searches_list and of
\* get_saved_searches_by_pattern are taken, in order, from upstream entries whose
\* disabled field is not true, and count is the number of entries returned.
C8_NoDisabledEntryListed ==
    (dirOut.status = "success"
        /\ dirOut.op \in {"get_saved_searches_list", "get_saved_searches_by_pattern"}) =>
        LET listed == dirOut.saved_searches
            n == Len(upstream.entry)
        IN /\ dirOut.count = Len(listed)
           /\ \E f \in [1..Len(listed) -> 1..n] :
                 /\ \A i, j \in 1..Len(listed) : i < j => f[i] < f[j]
                 /\ \A i \in 1..Len(listed) :
                       /\ upstream.entry[f[i]].disabled # "true"
                       /\ upstream.entry[f[i]].name = listed[i].name
                       /\ upstream.entry[f[i]].description = listed[i].description

\* C8 witness: a disabled entry was left out and another entry was returned
C8_Witness ==
    /\ dirOut.status = "success"
    /\ dirOut.op = "get_saved_searches_by_pattern"
    /\ dirOut.count = 1
    /\ Len(upstream.entry) = 2
    /\ upstream.entry[1].disabled = "true"

\* C9: every entry get_saved_searches_by_pattern returns has disabled = false,
\* whatever the upstream disabled field holds.
C9_DisabledAlwaysFalse ==
    (dirOut.status = "success" /\ dirOut.op = "get_saved_searches_by_pattern") =>
        \A i \in 1..Len(dirOut.saved_searches) :
            dirOut.saved_searches[i].disabled = "false"

\* C10: get_saved_searches_by_pattern with an empty pattern and
\* get_saved_search_details with an empty search_name return their validation
\* error, and the number of upstream requests is unchanged by the call.
C10_ValidationBeforeRequest ==
    [][ (dirArgs'.arg = <<>> /\ dirArgs'.op # "get_saved_searches_list") =>
          /\ httpCalls' = httpCalls
          /\ dirOut'.status = "error"
          /\ dirArgs'.op = "get_saved_searches_by_pattern"
                => dirOut'.error = "pattern is required"
          /\ dirArgs'.op = "get_saved_search_details"
                => dirOut'.error = "search_name is required"
      ]_vars

\* C10 witness: a call with an empty pattern after a request was made
C10_Witness ==
    /\ dirArgs.op = "get_saved_searches_by_pattern"
    /\ dirArgs.arg = <<>>
    /\ dirOut.error = "pattern is required"
    /\ httpCalls = 1

====
